---- MODULE Spec2Model ----
(***************************************************************************)
(* Model of clustering2.py: one run of the Streamlit script main(), from   *)
(* the uploaded files to the archive of clustered files, and of the text   *)
(* normalisation get_file_structure / normalize_line on its own.           *)
(*                                                                         *)
(* Texts are sequences of one-character strings.  The TF-IDF matrix X is   *)
(* represented by what the rest of the program reads from it: which rows   *)
(* are all-zero, how many columns it has, and the cosine distance between  *)
(* every two rows, in units of 1/DistMax (DistMax stands for 1.0).         *)
(***************************************************************************)
EXTENDS Integers, Sequences, FiniteSets, TLC

VARIABLES
    pc,               \* position of the script run in main()
    uploaded_files,   \* value of st.file_uploader (main, line 148)
    processed_files,  \* process_files: files kept, in upload order
    structures,       \* process_files: their normalised texts, same order
    file_names,       \* process_files: their names, same order
    X,                \* cosine distances between the rows of the TF-IDF matrix
    min_samples_elbow,\* k of the k-distance plot (main, line 157)
    kth_distances,    \* plot_k_distance: the sorted curve that is plotted
    eps,              \* main, line 162
    min_samples,      \* main, line 164
    neighborhoods,    \* DBSCAN: for every row, the rows within eps of it
    labels,           \* DBSCAN: label of every row, -1 = noise / not yet assigned
    scan,             \* DBSCAN: index of the outer loop over the rows
    cur,              \* DBSCAN: the row the depth-first search is at
    stack,            \* DBSCAN: the stack of the depth-first search
    label_num,        \* DBSCAN: number of clusters started so far
    zip_file,         \* save_clustered_files: entries <<label, name>> of the archive
    error,            \* "none", or the warning / exception that ended the run
    work,             \* the steps of the run that have started
    norm_pc,          \* normalisation runs: position
    norm_in,          \* normalisation runs: the text x
    norm_once,        \* get_file_structure(x)
    norm_twice        \* get_file_structure(get_file_structure(x))

vars == <<pc, uploaded_files, processed_files, structures, file_names, X,
          min_samples_elbow, kth_distances, eps, min_samples, neighborhoods,
          labels, scan, cur, stack, label_num, zip_file, error, work,
          norm_pc, norm_in, norm_once, norm_twice>>

pipeVars == <<pc, uploaded_files, processed_files, structures, file_names, X,
              min_samples_elbow, kth_distances, eps, min_samples, neighborhoods,
              labels, scan, cur, stack, label_num, zip_file, error, work>>

normVars == <<norm_pc, norm_in, norm_once, norm_twice>>

----------------------------------------------------------------------------
(* Bounds of the model. *)

\* most files uploaded in one run
MaxFiles == 3
\* the cosine distance 1.0, in model units: distances are 0..DistMax
DistMax == 3
\* longest text of a normalisation run
MaxLen == 4

\* largest k and largest min_samples tried: one more than any corpus size
MaxSamples == MaxFiles + 1

----------------------------------------------------------------------------
(* Characters and texts. *)

NL == "\n"
SP == " "
TAB == "\t"

\* str.isspace of one character
IsSpace(c) == c \in {SP, TAB, NL}

\* str.lower of one character
LowerChar(c) == IF c = "A" THEN "a" ELSE c

\* a plausible slip: swapcase instead of lower
SwapCaseChar(c) == IF c = "A" THEN "a" ELSE IF c = "a" THEN "A" ELSE c

\* str.lower
Lower(s) == [p \in 1..Len(s) |-> LowerChar(s[p])]

\* str.lstrip
RECURSIVE LStrip(_)
LStrip(s) == IF s # <<>> /\ IsSpace(Head(s)) THEN LStrip(Tail(s)) ELSE s

\* str.rstrip
RECURSIVE RStrip(_)
RStrip(s) ==
    IF s # <<>> /\ IsSpace(s[Len(s)]) THEN RStrip(SubSeq(s, 1, Len(s) - 1)) ELSE s

\* str.strip
Strip(s) == RStrip(LStrip(s))

\* str.split('\n'): the pieces between newlines, n newlines give n + 1 pieces
RECURSIVE SplitLines(_, _)
SplitLines(s, piece) ==
    IF s = <<>> THEN <<piece>>
    ELSE IF Head(s) = NL THEN <<piece>> \o SplitLines(Tail(s), <<>>)
    ELSE SplitLines(Tail(s), Append(piece, Head(s)))

\* ' '.join(lines)
RECURSIVE JoinSpace(_)
JoinSpace(lines) ==
    IF lines = <<>> THEN <<>>
    ELSE IF Len(lines) = 1 THEN lines[1]
    ELSE lines[1] \o <<SP>> \o JoinSpace(Tail(lines))

\* normalize_line with swapcase instead of lower
normalize_line_swapcase(line) ==
    LET t == Strip(line) IN [p \in 1..Len(t) |-> SwapCaseChar(t[p])]

\* normalize_line(line): line.strip().lower()
normalize_line(line) == Lower(Strip(line))

\* the list comprehension of get_file_structure: the cleaned non-blank lines
RECURSIVE CleanedLines(_)
CleanedLines(lines) ==
    IF lines = <<>> THEN <<>>
    ELSE IF Strip(Head(lines)) # <<>>
         THEN <<normalize_line(Head(lines))>> \o CleanedLines(Tail(lines))
         ELSE CleanedLines(Tail(lines))

\* get_file_structure(file_content)
get_file_structure(file_content) ==
    JoinSpace(CleanedLines(SplitLines(file_content, <<>>)))

----------------------------------------------------------------------------
(* Uploaded files. *)

\* the decoded contents a file of the model can have
Texts ==
    { <<SP, NL>>,                       \* only blank lines
      <<"A", "b">>,                     \* shorter than any n-gram
      <<SP, "A", "b", "c", NL, NL>>,    \* "abc"
      <<"a", "b", "c", "d">>,           \* "abcd": shares n-grams with both others
      <<"b", "c", "d", NL>> }           \* "bcd": shares no n-gram with "abc"

\* what one uploaded file can hold: decodable is whether
\* file.getvalue().decode("utf-8") succeeds
Contents ==
    { [decodable |-> TRUE, text |-> t] : t \in Texts }
        \cup { [decodable |-> FALSE, text |-> <<>>] }

\* the values st.file_uploader can return: lists of files with distinct names
Uploads ==
    UNION { { [p \in 1..n |-> [name |-> p, decodable |-> c[p].decodable,
                               text |-> c[p].text]] : c \in [1..n -> Contents] }
            : n \in 0..MaxFiles }

\* process_files keeping the files whose structure is empty
RECURSIVE KeptFiles_KeepEmpty(_)
KeptFiles_KeepEmpty(files) ==
    IF files = <<>> THEN <<>>
    ELSE LET file == Head(files) IN
         IF file.decodable
         THEN <<file>> \o KeptFiles_KeepEmpty(Tail(files))
         ELSE KeptFiles_KeepEmpty(Tail(files))

\* the loop of process_files over the files: the files kept, in order
RECURSIVE KeptFiles(_)
KeptFiles(files) ==
    IF files = <<>> THEN <<>>
    ELSE LET file == Head(files) IN
         IF file.decodable /\ get_file_structure(file.text) # <<>>
         THEN <<file>> \o KeptFiles(Tail(files))
         ELSE KeptFiles(Tail(files))

----------------------------------------------------------------------------
(* TfidfVectorizer(analyzer='char', ngram_range=(3, 5)). *)

NgramMin == 3
NgramMax == 5

\* the character n-grams of one text
Ngrams(s) ==
    UNION { { SubSeq(s, p, p + n - 1) : p \in 1..(Len(s) - n + 1) }
            : n \in NgramMin..NgramMax }

\* the vocabulary fitted on the corpus
Vocabulary(structs) == UNION { Ngrams(structs[p]) : p \in 1..Len(structs) }

\* pairs of different texts of the corpus that share an n-gram: the cosine
\* distance of their rows is strictly between 0 and 1
OverlapPairs(structs) ==
    { pr \in SUBSET { structs[p] : p \in 1..Len(structs) } :
        /\ Cardinality(pr) = 2
        /\ \E s, t \in pr : s # t /\ Ngrams(s) \cap Ngrams(t) # {} }

\* cosine distance of two different rows, given the distances chosen for the
\* overlapping pairs: 1 when no n-gram is shared (also for an all-zero row),
\* 0 for equal texts
RowDistance(s, t, chosen) ==
    IF Ngrams(s) \cap Ngrams(t) = {} THEN DistMax
    ELSE IF s = t THEN 0
    ELSE chosen[{s, t}]

\* the matrices fit_transform can return for the corpus, as the model keeps them
Matrices(structs) ==
    { [ n_samples  |-> Len(structs),
        n_features |-> Cardinality(Vocabulary(structs)),
        zero       |-> [p \in 1..Len(structs) |-> Ngrams(structs[p]) = {}],
        dist       |-> [p \in 1..Len(structs) |-> [q \in 1..Len(structs) |->
                          IF p = q THEN 0
                          ELSE RowDistance(structs[p], structs[q], chosen)]] ]
      : chosen \in [OverlapPairs(structs) -> 1..(DistMax - 1)] }

\* the value of X before vectorize_structures has run
NoMatrix == [n_samples |-> 0, n_features |-> 0, zero |-> <<>>, dist |-> <<>>]

\* sklearn's cosine distance between rows p and q of M.  The distance of an
\* all-zero row to itself is 1 - 0 unless the library recognises the query
\* and the fitted matrix as one object and zeroes the diagonal: zero_self is
\* the value the library produces there.
CosineDistance(M, p, q, zero_self) ==
    IF p = q /\ M.zero[p] THEN zero_self ELSE M.dist[p][q]

\* the values the self-distance of an all-zero row can take
ZeroSelf == {0, DistMax}

----------------------------------------------------------------------------
(* plot_k_distance. *)

\* kneighbors(X_dense): the distances of row p to all rows, ascending
RowDistancesSorted(M, p, zero_self) ==
    SortSeq([q \in 1..M.n_samples |-> CosineDistance(M, p, q, zero_self)],
            LAMBDA a, b : a < b)

\* distances[:, min_samples - 1], then np.sort
KthDistances(M, k, zero_self) ==
    SortSeq([p \in 1..M.n_samples |-> RowDistancesSorted(M, p, zero_self)[k]],
            LAMBDA a, b : a < b)

----------------------------------------------------------------------------
(* DBSCAN(eps, min_samples, metric='cosine').fit_predict(X). *)

\* radius_neighbors(X, eps): for every row the rows at distance <= eps
RadiusNeighbors(M, e, zero_self) ==
    [p \in 1..M.n_samples |->
        { q \in 1..M.n_samples : CosineDistance(M, p, q, zero_self) <= e }]

\* core_samples: rows with at least min_samples neighbours
is_core(p) == Cardinality(neighborhoods[p]) >= min_samples

\* the elements of a set of integers in ascending order
RECURSIVE Ascending(_)
Ascending(S) ==
    IF S = {} THEN <<>>
    ELSE LET m == CHOOSE x \in S : \A y \in S : x <= y
         IN <<m>> \o Ascending(S \ {m})

----------------------------------------------------------------------------
(* visualize_clusters and save_clustered_files. *)

\* PCA(n_components=2)
PcaComponents == 2

\* save_clustered_files writing only the files of a cluster, not the noise
RECURSIVE SaveClusteredFiles_SkipNoise(_, _)
SaveClusteredFiles_SkipNoise(files, lbls) ==
    IF files = <<>> \/ lbls = <<>> THEN <<>>
    ELSE (IF Head(lbls) >= 0 THEN << <<Head(lbls), Head(files).name>> >> ELSE <<>>)
            \o SaveClusteredFiles_SkipNoise(Tail(files), Tail(lbls))

\* the entries written to the archive: <<label of the folder, file name>>
SaveClusteredFiles(files, lbls) ==
    [p \in 1..(IF Len(files) < Len(lbls) THEN Len(files) ELSE Len(lbls)) |->
        <<lbls[p], files[p].name>>]

----------------------------------------------------------------------------
(* The script run. *)

NoNorm ==
    /\ norm_pc = "off"
    /\ norm_in = <<>>
    /\ norm_once = <<>>
    /\ norm_twice = <<>>

\* the state of main() when the script starts, for every upload
Init ==
    /\ pc = "main"
    /\ uploaded_files \in Uploads
    /\ processed_files = <<>>
    /\ structures = <<>>
    /\ file_names = <<>>
    /\ X = NoMatrix
    /\ min_samples_elbow = 0
    /\ kth_distances = <<>>
    /\ eps = 0
    /\ min_samples = 0
    /\ neighborhoods = <<>>
    /\ labels = <<>>
    /\ scan = 0
    /\ cur = 0
    /\ stack = <<>>
    /\ label_num = 0
    /\ zip_file = <<>>
    /\ error = "none"
    /\ work = {}
    /\ NoNorm

\* main, line 152: nothing was uploaded, the script does nothing
NoUpload ==
    /\ pc = "main"
    /\ uploaded_files = <<>>
    /\ pc' = "done"
    /\ UNCHANGED <<uploaded_files, processed_files, structures, file_names, X,
                   min_samples_elbow, kth_distances, eps, min_samples,
                   neighborhoods, labels, scan, cur, stack, label_num, zip_file,
                   error, work, normVars>>

\* process_files calling vectorize_structures before it looks whether any file
\* was kept
ReadFiles_VectorizeFirst ==
    /\ pc = "main"
    /\ uploaded_files # <<>>
    /\ processed_files' = KeptFiles(uploaded_files)
    /\ structures' = [p \in 1..Len(processed_files') |->
                        get_file_structure(processed_files'[p].text)]
    /\ work' = work \cup {"vectorize"}
    /\ pc' = "read"
    /\ UNCHANGED <<uploaded_files, file_names, X, min_samples_elbow,
                   kth_distances, eps, min_samples, neighborhoods, labels, scan,
                   cur, stack, label_num, zip_file, error, normVars>>

\* process_files, lines 102-114: decode every file and keep those with a
\* non-empty structure
ReadFiles ==
    /\ pc = "main"
    /\ uploaded_files # <<>>
    /\ processed_files' = KeptFiles(uploaded_files)
    /\ structures' = [p \in 1..Len(processed_files') |->
                        get_file_structure(processed_files'[p].text)]
    /\ pc' = "read"
    /\ UNCHANGED <<uploaded_files, file_names, X, min_samples_elbow,
                   kth_distances, eps, min_samples, neighborhoods, labels, scan,
                   cur, stack, label_num, zip_file, error, work, normVars>>

\* process_files, lines 116-118, and main, line 155: no file was kept
NoFiles ==
    /\ pc = "read"
    /\ processed_files = <<>>
    /\ error' = "warning_no_files"
    /\ pc' = "done"
    /\ UNCHANGED <<uploaded_files, processed_files, structures, file_names, X,
                   min_samples_elbow, kth_distances, eps, min_samples,
                   neighborhoods, labels, scan, cur, stack, label_num, zip_file,
                   work, normVars>>

\* process_files, lines 120-122: vectorize_structures(structures); fit_transform
\* raises ValueError("empty vocabulary") when no text has an n-gram
Vectorize ==
    /\ pc = "read"
    /\ processed_files # <<>>
    /\ work' = work \cup {"vectorize"}
    /\ IF Vocabulary(structures) = {}
       THEN /\ error' = "ValueError_empty_vocabulary"
            /\ pc' = "failed"
            /\ UNCHANGED <<X, file_names>>
       ELSE /\ X' \in Matrices(structures)
            /\ file_names' = [p \in 1..Len(processed_files) |->
                                processed_files[p].name]
            /\ pc' = "elbow"
            /\ UNCHANGED error
    /\ UNCHANGED <<uploaded_files, processed_files, structures,
                   min_samples_elbow, kth_distances, eps, min_samples,
                   neighborhoods, labels, scan, cur, stack, label_num, zip_file,
                   normVars>>

\* main, lines 156-159: plot_k_distance(X, k); kneighbors raises ValueError
\* when n_neighbors > n_samples
PlotKDistance ==
    /\ pc = "elbow"
    /\ \E k \in 1..MaxSamples, zero_self \in ZeroSelf :
        /\ min_samples_elbow' = k
        /\ work' = work \cup {"kdist"}
        /\ IF k > X.n_samples
           THEN /\ error' = "ValueError_n_neighbors"
                /\ pc' = "failed"
                /\ UNCHANGED kth_distances
           ELSE /\ kth_distances' = KthDistances(X, k, zero_self)
                /\ pc' = "params"
                /\ UNCHANGED error
    /\ UNCHANGED <<uploaded_files, processed_files, structures, file_names, X,
                   eps, min_samples, neighborhoods, labels, scan, cur, stack,
                   label_num, zip_file, normVars>>

\* main, lines 162-169, start of fit_predict: DBSCAN rejects eps = 0.0 (the
\* least value the eps widget allows), else computes the neighbourhoods and
\* sets every label to -1
DbscanFit ==
    /\ pc = "params"
    /\ \E e \in 0..DistMax, ms \in 1..MaxSamples, zero_self \in ZeroSelf :
        /\ eps' = e
        /\ min_samples' = ms
        /\ IF e <= 0
           THEN /\ error' = "InvalidParameterError_eps"
                /\ pc' = "failed"
                /\ UNCHANGED <<neighborhoods, labels, scan, label_num, work>>
           ELSE /\ work' = work \cup {"cluster"}
                /\ neighborhoods' = RadiusNeighbors(X, e, zero_self)
                /\ labels' = [p \in 1..X.n_samples |-> -1]
                /\ scan' = 1
                /\ label_num' = 0
                /\ pc' = "scan"
                /\ UNCHANGED error
    /\ UNCHANGED <<uploaded_files, processed_files, structures, file_names, X,
                   min_samples_elbow, kth_distances, cur, stack, zip_file,
                   normVars>>

\* the rows from which the outer loop of dbscan_inner can still start a cluster
Starters == { p \in scan..Len(labels) : labels[p] = -1 /\ is_core(p) }

\* the outer loop running over the rows from the last to the first
Scan_Reverse ==
    /\ pc = "scan"
    /\ LET left == { p \in 1..Len(labels) : labels[p] = -1 /\ is_core(p) } IN
       IF left = {}
       THEN /\ scan' = Len(labels) + 1
            /\ pc' = "clustered"
            /\ UNCHANGED cur
       ELSE /\ scan' = CHOOSE p \in left : \A q \in left : p >= q
            /\ cur' = scan'
            /\ pc' = "expand"
    /\ UNCHANGED <<uploaded_files, processed_files, structures, file_names, X,
                   min_samples_elbow, kth_distances, eps, min_samples,
                   neighborhoods, labels, stack, label_num, zip_file, error,
                   work, normVars>>

\* dbscan_inner, outer loop: skip the rows that are labelled or not core; the
\* first remaining row starts the next cluster, and without one the labels
\* are final
Scan ==
    /\ pc = "scan"
    /\ IF Starters = {}
       THEN /\ scan' = Len(labels) + 1
            /\ pc' = "clustered"
            /\ UNCHANGED cur
       ELSE /\ scan' = CHOOSE p \in Starters : \A q \in Starters : p <= q
            /\ cur' = scan'
            /\ pc' = "expand"
    /\ UNCHANGED <<uploaded_files, processed_files, structures, file_names, X,
                   min_samples_elbow, kth_distances, eps, min_samples,
                   neighborhoods, labels, stack, label_num, zip_file, error,
                   work, normVars>>

\* the stack after the rows of S that have no label yet are pushed, in index order
Pushed(stk, S, lbls) == stk \o Ascending({ v \in S : lbls[v] = -1 })

\* the depth-first search giving every row it reaches to the current cluster,
\* also a row that has the label of an earlier cluster
Expand_Relabel ==
    /\ pc = "expand"
    /\ LET fresh == labels[cur] # label_num
           lbls == IF fresh THEN [labels EXCEPT ![cur] = label_num] ELSE labels
           stk == IF fresh /\ is_core(cur)
                  THEN stack \o Ascending({ v \in neighborhoods[cur] :
                                              lbls[v] # label_num })
                  ELSE stack
       IN /\ labels' = lbls
          /\ IF stk = <<>>
             THEN /\ label_num' = label_num + 1
                  /\ scan' = scan + 1
                  /\ stack' = stk
                  /\ pc' = "scan"
                  /\ UNCHANGED cur
             ELSE /\ cur' = stk[Len(stk)]
                  /\ stack' = SubSeq(stk, 1, Len(stk) - 1)
                  /\ UNCHANGED <<label_num, scan, pc>>
    /\ UNCHANGED <<uploaded_files, processed_files, structures, file_names, X,
                   min_samples_elbow, kth_distances, eps, min_samples,
                   neighborhoods, zip_file, error, work, normVars>>

\* dbscan_inner, one turn of the depth-first search: label the row if it has
\* no label, push the unlabelled neighbours of a core row, then pop the next
\* row or close the cluster
Expand ==
    /\ pc = "expand"
    /\ LET fresh == labels[cur] = -1
           lbls == IF fresh THEN [labels EXCEPT ![cur] = label_num] ELSE labels
           stk == IF fresh /\ is_core(cur)
                  THEN Pushed(stack, neighborhoods[cur], lbls)
                  ELSE stack
       IN /\ labels' = lbls
          /\ IF stk = <<>>
             THEN /\ label_num' = label_num + 1
                  /\ scan' = scan + 1
                  /\ stack' = stk
                  /\ pc' = "scan"
                  /\ UNCHANGED cur
             ELSE /\ cur' = stk[Len(stk)]
                  /\ stack' = SubSeq(stk, 1, Len(stk) - 1)
                  /\ UNCHANGED <<label_num, scan, pc>>
    /\ UNCHANGED <<uploaded_files, processed_files, structures, file_names, X,
                   min_samples_elbow, kth_distances, eps, min_samples,
                   neighborhoods, zip_file, error, work, normVars>>

\* main, lines 171-173: visualize_clusters; PCA(n_components=2) raises
\* ValueError when the matrix has fewer than 2 rows or fewer than 2 columns
Visualize ==
    /\ pc = "clustered"
    /\ IF X.n_samples < PcaComponents \/ X.n_features < PcaComponents
       THEN /\ error' = "ValueError_n_components"
            /\ pc' = "failed"
       ELSE /\ pc' = "shown"
            /\ UNCHANGED error
    /\ UNCHANGED <<uploaded_files, processed_files, structures, file_names, X,
                   min_samples_elbow, kth_distances, eps, min_samples,
                   neighborhoods, labels, scan, cur, stack, label_num, zip_file,
                   work, normVars>>

\* the archive written from the uploaded files instead of the kept ones
Save_UploadedFiles ==
    /\ pc = "shown"
    /\ zip_file' = SaveClusteredFiles(uploaded_files, labels)
    /\ pc' = "saved"
    /\ UNCHANGED <<uploaded_files, processed_files, structures, file_names, X,
                   min_samples_elbow, kth_distances, eps, min_samples,
                   neighborhoods, labels, scan, cur, stack, label_num, error,
                   work, normVars>>

\* main, lines 183-184: the button is pressed, save_clustered_files
Save ==
    /\ pc = "shown"
    /\ zip_file' = SaveClusteredFiles(processed_files, labels)
    /\ pc' = "saved"
    /\ UNCHANGED <<uploaded_files, processed_files, structures, file_names, X,
                   min_samples_elbow, kth_distances, eps, min_samples,
                   neighborhoods, labels, scan, cur, stack, label_num, error,
                   work, normVars>>

\* main, line 183: the button is not pressed
NoSave ==
    /\ pc = "shown"
    /\ pc' = "done"
    /\ UNCHANGED <<uploaded_files, processed_files, structures, file_names, X,
                   min_samples_elbow, kth_distances, eps, min_samples,
                   neighborhoods, labels, scan, cur, stack, label_num, zip_file,
                   error, work, normVars>>

Next ==
    \/ NoUpload
    \/ ReadFiles
    \/ NoFiles
    \/ Vectorize
    \/ PlotKDistance
    \/ DbscanFit
    \/ Scan
    \/ Expand
    \/ Visualize
    \/ Save
    \/ NoSave

Spec == Init /\ [][Next]_vars

----------------------------------------------------------------------------
(* Normalisation on its own: get_file_structure applied to a text, and again *)
(* to its own result.                                                        *)

Alphabet == {"A", "a", SP, TAB, NL}

\* every text of at most MaxLen characters
AllTexts == UNION { [1..n -> Alphabet] : n \in 0..MaxLen }

InitNorm ==
    /\ pc = "off"
    /\ uploaded_files = <<>>
    /\ processed_files = <<>>
    /\ structures = <<>>
    /\ file_names = <<>>
    /\ X = NoMatrix
    /\ min_samples_elbow = 0
    /\ kth_distances = <<>>
    /\ eps = 0
    /\ min_samples = 0
    /\ neighborhoods = <<>>
    /\ labels = <<>>
    /\ scan = 0
    /\ cur = 0
    /\ stack = <<>>
    /\ label_num = 0
    /\ zip_file = <<>>
    /\ error = "none"
    /\ work = {}
    /\ norm_pc = "text"
    /\ norm_in \in AllTexts
    /\ norm_once = <<>>
    /\ norm_twice = <<>>

NormalizeOnce ==
    /\ norm_pc = "text"
    /\ norm_once' = get_file_structure(norm_in)
    /\ norm_pc' = "once"
    /\ UNCHANGED <<norm_in, norm_twice, pipeVars>>

NormalizeTwice ==
    /\ norm_pc = "once"
    /\ norm_twice' = get_file_structure(norm_once)
    /\ norm_pc' = "twice"
    /\ UNCHANGED <<norm_in, norm_once, pipeVars>>

NextNorm == NormalizeOnce \/ NormalizeTwice

SpecNorm == InitNorm /\ [][NextNorm]_vars

----------------------------------------------------------------------------
(* The call DBSCAN(eps, min_samples, metric='cosine').fit_predict(X) on its  *)
(* own, for corpora larger than the texts above give: X is any matrix of up  *)
(* to MaxRows rows without all-zero row in which every two rows either share *)
(* n-grams (distance NearDist) or share none (distance 1.0).                 *)

\* most rows of such a matrix
MaxRows == MaxFiles + 2

\* the distance of two rows that share n-grams
NearDist == DistMax - 1

\* the pairs of rows p < q
RowPairs(n) == { pr \in (1..n) \X (1..n) : pr[1] < pr[2] }

\* the matrix of n rows in which exactly the pairs of near are close
GraphMatrix(n, near) ==
    [ n_samples  |-> n,
      n_features |-> n,
      zero       |-> [p \in 1..n |-> FALSE],
      dist       |-> [p \in 1..n |-> [q \in 1..n |->
                        IF p = q THEN 0
                        ELSE IF <<p, q>> \in near \/ <<q, p>> \in near
                             THEN NearDist
                             ELSE DistMax]] ]

\* main at line 161, after process_files and plot_k_distance have returned
InitCluster ==
    /\ pc = "params"
    /\ \E n \in 1..MaxRows : \E near \in SUBSET RowPairs(n) :
          /\ X = GraphMatrix(n, near)
          /\ file_names = [p \in 1..n |-> p]
    /\ uploaded_files = <<>>
    /\ processed_files = <<>>
    /\ structures = <<>>
    /\ min_samples_elbow = 1
    /\ kth_distances = <<>>
    /\ eps = 0
    /\ min_samples = 0
    /\ neighborhoods = <<>>
    /\ labels = <<>>
    /\ scan = 0
    /\ cur = 0
    /\ stack = <<>>
    /\ label_num = 0
    /\ zip_file = <<>>
    /\ error = "none"
    /\ work = {"vectorize", "kdist"}
    /\ NoNorm

NextCluster == DbscanFit \/ Scan \/ Expand

SpecCluster == InitCluster /\ [][NextCluster]_vars

----------------------------------------------------------------------------
(* Properties. *)

\* fit_predict has returned: the outer loop of DBSCAN has passed the last row
LabelsFinal == "cluster" \in work /\ scan > Len(labels)

\* the characters of a text
Chars(s) == { s[p] : p \in 1..Len(s) }

\* the file decodes and has a line that is not blank
HasContent(file) == file.decodable /\ \E c \in Chars(file.text) : ~IsSpace(c)

\* the file decodes to blank lines only
IsBlank(file) == file.decodable /\ \A c \in Chars(file.text) : IsSpace(c)

\* number of entries of the archive that carry the name
Occurrences(name) ==
    Cardinality({ q \in 1..Len(zip_file) : zip_file[q][2] = name })

\* the labels of clusters in use
UsedLabels == { labels[p] : p \in 1..Len(labels) } \ {-1}

ClaimCore(p) ==
    Cardinality({ q \in 1..X.n_samples : q # p /\ X.dist[p][q] <= eps }) + 1
        >= min_samples

\* C2: when clustering has finished, a document has label -1 exactly when it
\* is not a core point and is within eps of no core point; every other
\* document has a label >= 0
C2_NoiseExactlyUnreachable ==
    LabelsFinal =>
        \A p \in 1..Len(labels) :
            /\ labels[p] >= -1
            /\ labels[p] = -1 <=>
                 /\ ~ClaimCore(p)
                 /\ ~\E q \in 1..Len(labels) :
                       q # p /\ ClaimCore(q) /\ X.dist[p][q] <= eps

\* the lowest-indexed core point of cluster c
FirstCore(c) ==
    CHOOSE p \in 1..Len(labels) :
        /\ labels[p] = c /\ is_core(p)
        /\ \A q \in 1..Len(labels) : labels[q] = c /\ is_core(q) => p <= q

\* C3: a cluster is started at the first core point, in input order, that has
\* no label yet, and gets the number of clusters started before it; when
\* clustering has finished the labels in use are exactly 0..C-1 and the first
\* core points of the clusters are in the order of the labels
C3_LabelsInDiscoveryOrder ==
    /\ (pc = "expand" /\ labels[scan] = -1) =>
          /\ cur = scan
          /\ is_core(scan)
          /\ \A q \in 1..(scan - 1) : ~(labels[q] = -1 /\ is_core(q))
          /\ UsedLabels = 0..(label_num - 1)
    /\ LabelsFinal =>
          /\ UsedLabels = 0..(label_num - 1)
          /\ \A c \in UsedLabels :
                \E p \in 1..Len(labels) : labels[p] = c /\ is_core(p)
          /\ \A c, d \in UsedLabels : c < d => FirstCore(c) < FirstCore(d)

C3_Witness ==
    /\ LabelsFinal
    /\ label_num >= 2
    /\ FirstCore(0) < FirstCore(1)

\* C4: when clustering with min_points = 1 has finished, every document has a
\* label >= 0, and a document with no other document within eps has a label
\* that no other document has
C4_NoNoiseWithMinPointsOne ==
    (LabelsFinal /\ min_samples = 1) =>
        \A p \in 1..Len(labels) :
            /\ labels[p] >= 0
            /\ (\A q \in 1..Len(labels) : q # p => X.dist[p][q] > eps)
                  => \A q \in 1..Len(labels) : q # p => labels[q] # labels[p]

\* the distances of row p to the other rows, ascending
OtherDistancesSorted(p) ==
    LET others == Ascending({ q \in 1..X.n_samples : q # p })
    IN SortSeq([r \in 1..Len(others) |-> X.dist[p][others[r]]],
               LAMBDA a, b : a < b)

\* C5: the plotted curve holds, for every document, the k-th smallest
\* distance to the other documents (sorted ascending)
C5_KthDistanceExcludesSelf ==
    (pc = "params" /\ min_samples_elbow <= X.n_samples - 1) =>
        kth_distances =
            SortSeq([p \in 1..X.n_samples |->
                        OtherDistancesSorted(p)[min_samples_elbow]],
                    LAMBDA a, b : a < b)

\* C6: when the k-distance diagnostic is called with N <= k it ends in an
\* error and returns no distances
C6_ErrorWhenCorpusNotLargerThanK ==
    ("kdist" \in work /\ X.n_samples <= min_samples_elbow) =>
        /\ error = "ValueError_n_neighbors"
        /\ kth_distances = <<>>

\* the rows of the corpus that belong to the uploaded file
RowsOf(file) ==
    { r \in 1..Len(processed_files) : processed_files[r].name = file.name }

C8_ValidationBeforeWork ==
    error \in {"warning_no_files", "ValueError_n_neighbors",
               "InvalidParameterError_eps"} => work = {}

\* C8 amended: only an upload that is empty or of which no file is kept is
\* turned away before any work; k > N is rejected after vectorization, inside
\* the k-distance computation, and eps <= 0 is rejected after vectorization
\* and the k-distance computation, when clustering is called
C8_OnlyEmptyInputBeforeWork ==
    /\ uploaded_files = <<>> => work = {} /\ error = "none"
    /\ error = "warning_no_files" => work = {}
    /\ error = "ValueError_n_neighbors" => work = {"vectorize", "kdist"}
    /\ error = "InvalidParameterError_eps" => work = {"vectorize", "kdist"}

C8_Witness ==
    /\ error = "InvalidParameterError_eps"
    /\ eps = 0
    /\ "vectorize" \in work
    /\ X.n_samples >= 2

\* C9: get_file_structure applied to its own result returns that result
C9_NormalizationIdempotent ==
    norm_pc = "twice" => norm_twice = norm_once

C9_Witness ==
    /\ norm_pc = "twice"
    /\ "A" \in Chars(norm_in)
    /\ NL \in Chars(norm_in)
    /\ SP \in Chars(norm_once)
    /\ norm_once # norm_in

\* C10: once a non-empty list of files is kept, vectorization does not fail
\* and gives every kept file a row, and clustering with valid parameters
\* gives every kept file a label
C10_VectorizeAndClusterTotal ==
    /\ "vectorize" \in work =>
          /\ error # "ValueError_empty_vocabulary"
          /\ X.n_samples = Len(processed_files)
    /\ LabelsFinal => Len(labels) = Len(processed_files)


\* the core rows within eps of row p
CoresNear(p) == { q \in neighborhoods[p] : q # p /\ is_core(q) }

\* the least label of a set of rows
FirstLabel(S) ==
    CHOOSE l \in { labels[q] : q \in S } : \A q \in S : l <= labels[q]

\* C11: no step of the run changes a label >= 0, and when clustering has
\* finished a document that is not core and is within eps of core points has
\* the label of the first discovered (lowest numbered) of their clusters
C11_BorderFirstComeFirstServed ==
    [][ /\ \A p \in (DOMAIN labels) \cap (DOMAIN labels') :
              labels[p] >= 0 => labels'[p] = labels[p]
        /\ LabelsFinal' =>
              (\A p \in 1..Len(labels) :
                  (~is_core(p) /\ CoresNear(p) # {}) =>
                      labels[p] = FirstLabel(CoresNear(p)))' ]_vars

C11_Witness ==
    /\ LabelsFinal
    /\ \E p \in 1..Len(labels) :
          /\ ~is_core(p)
          /\ \E q, r \in CoresNear(p) :
                labels[q] < labels[r] /\ labels[p] = labels[q]


\* the folders (labels) under which the archive holds the name
FoldersOf(name) ==
    { zip_file[q][1] : q \in { r \in 1..Len(zip_file) : zip_file[r][2] = name } }

\* C12: when process_files has returned a corpus, processed_files, file_names,
\* the structures and the rows of X have the same length and the same order,
\* the upload order, and row i of X is the row of the text of
\* processed_files[i]; the lengths and the order stay so for the rest of the
\* run; once the archive is written it has one entry per kept file, and the
\* file processed_files[i] is under the folder of labels[i] and under no other
C12_IndexAlignment ==
    /\ X.n_samples > 0 =>
          /\ Len(processed_files) = X.n_samples
          /\ Len(file_names) = X.n_samples
          /\ Len(structures) = X.n_samples
          /\ \A i \in 1..X.n_samples :
                /\ file_names[i] = processed_files[i].name
                /\ processed_files[i] = uploaded_files[file_names[i]]
                /\ \A j \in 1..(i - 1) : file_names[j] < file_names[i]
    /\ pc = "elbow" =>
          /\ \A i \in 1..X.n_samples :
                /\ structures[i] = get_file_structure(processed_files[i].text)
                /\ X.zero[i] <=> Ngrams(structures[i]) = {}
          /\ \A i, j \in 1..X.n_samples :
                i # j =>
                   /\ X.dist[i][j] = 0 <=>
                         /\ structures[i] = structures[j]
                         /\ ~X.zero[i]
                   /\ X.dist[i][j] = DistMax <=>
                         Ngrams(structures[i]) \cap Ngrams(structures[j]) = {}
    /\ pc = "saved" =>
          /\ Len(labels) = Len(processed_files)
          /\ Len(zip_file) = Len(processed_files)
          /\ \A i \in 1..Len(processed_files) :
                FoldersOf(processed_files[i].name) = {labels[i]}

C12_Witness ==
    /\ pc = "saved"
    /\ ~HasContent(uploaded_files[1])
    /\ Len(labels) = 2
    /\ labels[1] # labels[2]
    /\ FoldersOf(processed_files[2].name) = {labels[2]}

====
